---- MODULE Spec2Model ----
(***************************************************************************)
(* A model of fp.js: the naive and the optimized list operations, the two  *)
(* composers, the reducer transformers, and the benchmark loop that runs   *)
(* when the module is loaded.                                              *)
(*                                                                         *)
(* JavaScript values are tagged records.  A function value is a record     *)
(* that names its code (k) and holds what its closure captured.  Calling a *)
(* function yields an outcome [val, arg1, log]: the value returned (or the *)
(* exception thrown), the state of the object passed as first argument     *)
(* when the call ends (arrays are mutable and passed by reference), and    *)
(* the calls made, in the order they were entered.                         *)
(***************************************************************************)
EXTENDS Integers, Sequences, FiniteSets, TLC

VARIABLES pc, i, data, results, call

vars == <<pc, i, data, results, call>>

---------------------------------------------------------------------------
(* Bounds of the model *)

\* the arrays the functions are called on: at most MaxLen elements of -1 .. MaxElem
MaxElem == 1
MaxLen == 3
\* the longest list of functions given to a composer
MaxFns == 2
\* the transformers wrapped around a terminal reducer, at most
MaxNest == 1
\* the benchmark loop, scaled down: fp.js runs the sizes 1000, 4000, ... below
\* 1e7 and the naive pipeline up to 10000; the model runs FirstSize,
\* FirstSize * SizeFactor, ... below SizeLimit and the naive one up to SlowLimit
FirstSize == 2
SizeLimit == 20
SlowLimit == 4
SizeFactor == 4

---------------------------------------------------------------------------
(* JavaScript values *)

Num(n) == [t |-> "number", n |-> n]
NaN == [t |-> "NaN"]
Undefined == [t |-> "undefined"]
Bool(b) == [t |-> "boolean", b |-> b]
Arr(items) == [t |-> "array", items |-> items]
Throw(e) == [t |-> "throw", error |-> e]
Fn(k) == [t |-> "function", k |-> k]

IsThrow(v) == v.t = "throw"

\* the truthiness the conditional operator tests
Truthy(v) ==
  CASE v.t = "boolean" -> v.b
    [] v.t = "number" -> v.n # 0
    [] v.t \in {"NaN", "undefined"} -> FALSE
    [] OTHER -> TRUE

\* the remainder operator: the result takes the sign of the dividend
JsRem(x, m) == IF x >= 0 THEN x % m ELSE -((-x) % m)

\* the index an array's length-preserving loop reads: xs[i] past the end is undefined
At(xs, k) == IF k >= 1 /\ k <= Len(xs.items) THEN xs.items[k] ELSE Undefined

\* xs.length as a loop bound: a number or a boolean has no length, and
\* i < undefined is false, so the loop body never runs
Length(xs) ==
  CASE xs.t = "array" -> Len(xs.items)
    [] xs.t \in {"number", "NaN", "boolean"} -> 0

\* a value with no properties at all: reading xs.length of it is a TypeError
NoProperties(xs) == xs.t = "undefined"

Outcome(v, a, l) == [val |-> v, arg1 |-> a, log |-> l]
\* a call made: depth is the number of frames on the stack when it runs,
\* counted from the call whose outcome holds the event
Event(f, args) == [callee |-> f, args |-> args, depth |-> 1]

\* the calls a callee made lie one frame deeper than the callee
Deeper(log) == [k \in 1..Len(log) |-> [log[k] EXCEPT !.depth = @ + 1]]

---------------------------------------------------------------------------
(* fp.js lines 1-4, on the operands this program gives them: numbers, and   *)
(* the undefined and NaN that an empty array brings in.  undefined % 2,     *)
(* undefined + 1 and undefined * 10 are NaN, and NaN === 0 is false.        *)

NotANumber(x) == x.t \in {"NaN", "undefined"}

isEven(x) ==
  CASE x.t = "number" -> Bool(JsRem(x.n, 2) = 0)
    [] NotANumber(x) -> Bool(FALSE)

add(x, y) ==
  CASE x.t = "number" /\ y.t = "number" -> Num(x.n + y.n)
    [] (x.t = "number" \/ NotANumber(x)) /\ NotANumber(y) -> NaN
    [] NotANumber(x) /\ y.t = "number" -> NaN

add1(x) ==
  CASE x.t = "number" -> Num(x.n + 1)
    [] NotANumber(x) -> NaN

multBy10(x) ==
  CASE x.t = "number" -> Num(x.n * 10)
    [] NotANumber(x) -> NaN

---------------------------------------------------------------------------
(* Calling a function value.  Call dispatches on the code the value names;  *)
(* the operators below are the bodies, one per arrow function of fp.js,     *)
(* with the curried parameters written side by side.                        *)

RECURSIVE Call(_, _)
RECURSIVE fold(_, _, _)

\* Array.prototype.reduce with an initial value: acc = callback(acc, xs[k]) for
\* k = 0 .. length-1 (the callbacks of this program read two parameters)
RECURSIVE ArrayReduceLoop(_, _, _, _, _)
ArrayReduceLoop(callback, acc, xs, k, log) ==
  IF k > Len(xs.items) THEN Outcome(acc, xs, log)
  ELSE LET r == Call(callback, <<acc, xs.items[k]>>)
       IN  IF IsThrow(r.val) THEN Outcome(r.val, xs, log \o r.log)
           ELSE ArrayReduceLoop(callback, r.val, xs, k + 1, log \o r.log)

\* only arrays have the methods reduce, map and filter
ArrayReduce(callback, initial, xs) ==
  IF xs.t # "array" THEN Outcome(Throw("TypeError"), xs, <<>>)
  ELSE ArrayReduceLoop(callback, initial, xs, 1, <<>>)

\* Array.prototype.map / filter: a new array, the callback called once per index
RECURSIVE ArrayMapLoop(_, _, _, _, _)
ArrayMapLoop(callback, xs, k, out, log) ==
  IF k > Len(xs.items) THEN Outcome(Arr(out), xs, log)
  ELSE LET r == Call(callback, <<xs.items[k]>>)
       IN  IF IsThrow(r.val) THEN Outcome(r.val, xs, log \o r.log)
           ELSE ArrayMapLoop(callback, xs, k + 1, Append(out, r.val), log \o r.log)

ArrayMap(callback, xs) ==
  IF xs.t # "array" THEN Outcome(Throw("TypeError"), xs, <<>>)
  ELSE ArrayMapLoop(callback, xs, 1, <<>>, <<>>)

RECURSIVE ArrayFilterLoop(_, _, _, _, _)
ArrayFilterLoop(callback, xs, k, out, log) ==
  IF k > Len(xs.items) THEN Outcome(Arr(out), xs, log)
  ELSE LET r == Call(callback, <<xs.items[k]>>)
       IN  IF IsThrow(r.val) THEN Outcome(r.val, xs, log \o r.log)
           ELSE ArrayFilterLoop(callback, xs, k + 1,
                                IF Truthy(r.val) THEN Append(out, xs.items[k]) ELSE out,
                                log \o r.log)

ArrayFilter(callback, xs) ==
  IF xs.t # "array" THEN Outcome(Throw("TypeError"), xs, <<>>)
  ELSE ArrayFilterLoop(callback, xs, 1, <<>>, <<>>)

---------------------------------------------------------------------------
(* fp.js line 6, and the definition the README prints *)

\* (f, g) => (...args) => g(f(...args)), the callback given to reduceRight
composeStep(f, g) == [t |-> "function", k |-> "compose", f |-> f, g |-> g]

RECURSIVE composeLoop(_, _, _)
composeLoop(fns, j, f) ==
  IF j < 1 THEN f ELSE composeLoop(fns, j - 1, composeStep(f, fns[j]))

\* a faulty compose, folding the list from the left with the same callback
\* (reduce for reduceRight): the first listed function would run first
RECURSIVE composeLeftLoop(_, _, _)
composeLeftLoop(fns, j, f) ==
  IF j > Len(fns) THEN f ELSE composeLeftLoop(fns, j + 1, composeStep(f, fns[j]))

composeFromLeft(fns) ==
  IF Len(fns) = 0 THEN Throw("TypeError") ELSE composeLeftLoop(fns, 2, fns[1])

\* reduceRight without an initial value: the last function seeds the
\* accumulator, and an empty list is a TypeError
compose(fns) ==
  IF Len(fns) = 0 THEN Throw("TypeError")
  ELSE composeLoop(fns, Len(fns) - 1, fns[Len(fns)])

\* the call of (...args) => g(f(...args))
composeInner(f, g, args) ==
  LET a == Call(f, args)
  IN  IF IsThrow(a.val) THEN a
      ELSE LET b == Call(g, <<a.val>>)
           IN  Outcome(b.val, a.arg1, a.log \o b.log)

\* (f, g) => (...args) => f(g(...args)), the callback given to reduce
readmeStep(f, g) == [t |-> "function", k |-> "readmeCompose", f |-> f, g |-> g]

RECURSIVE readmeLoop(_, _, _)
readmeLoop(fns, j, f) ==
  IF j > Len(fns) THEN f ELSE readmeLoop(fns, j + 1, readmeStep(f, fns[j]))

readmeCompose(fns) ==
  IF Len(fns) = 0 THEN Throw("TypeError") ELSE readmeLoop(fns, 2, fns[1])

readmeInner(f, g, args) ==
  LET b == Call(g, args)
  IN  IF IsThrow(b.val) THEN b
      ELSE LET a == Call(f, <<b.val>>)
           IN  Outcome(a.val, b.arg1, b.log \o a.log)

---------------------------------------------------------------------------
(* fp.js lines 8-14 *)

\* for (let i = fns.length - 1; i > 1; i--): j is i + 1, sequences start at 1
RECURSIVE composeFastLoop(_, _, _, _, _)
composeFastLoop(fns, j, result, arg1, log) ==
  IF j <= 2 THEN Outcome(result, arg1, log)
  ELSE LET r == Call(fns[j], <<result>>)
       IN  IF IsThrow(r.val) THEN Outcome(r.val, arg1, log \o r.log)
           ELSE composeFastLoop(fns, j - 1, r.val, arg1, log \o r.log)

\* fns[0] of an empty list is undefined, and calling it is a TypeError
composeFast(fns, args) ==
  IF Len(fns) = 0 THEN Outcome(Throw("TypeError"), args[1], <<>>)
  ELSE LET first == Call(fns[1], args)
       IN  IF IsThrow(first.val) THEN first
           ELSE composeFastLoop(fns, Len(fns), first.val, first.arg1, first.log)

---------------------------------------------------------------------------
(* fp.js lines 16-40 *)

\* (acc, x) => [...acc, fn(x)]: a new array each time, acc is left alone
mapCallback(fn, acc, x) ==
  LET y == Call(fn, <<x>>)
  IN  IF IsThrow(y.val) THEN Outcome(y.val, acc, y.log)
      ELSE Outcome(Arr(acc.items \o <<y.val>>), acc, y.log)

map(fn, xs) ==
  ArrayReduce([t |-> "function", k |-> "mapCallback", fn |-> fn], Arr(<<>>), xs)

RECURSIVE mapFastLoop(_, _, _, _, _)
mapFastLoop(fn, xs, k, newXs, log) ==
  IF k > Length(xs) THEN Outcome(Arr(newXs), xs, log)
  ELSE LET y == Call(fn, <<xs.items[k]>>)
       IN  IF IsThrow(y.val) THEN Outcome(y.val, xs, log \o y.log)
           ELSE mapFastLoop(fn, xs, k + 1, Append(newXs, y.val), log \o y.log)

\* a faulty mapFast that writes fn(xs[i]) into xs[i]
mapFastInPlace(fn, xs) ==
  IF NoProperties(xs) THEN Outcome(Throw("TypeError"), xs, <<>>)
  ELSE LET o == mapFastLoop(fn, xs, 1, <<>>, <<>>)
       IN  IF IsThrow(o.val) THEN o ELSE Outcome(o.val, o.val, o.log)

\* a faulty mapFast whose loop starts at i = 1
mapFastFromSecond(fn, xs) ==
  IF NoProperties(xs) THEN Outcome(Throw("TypeError"), xs, <<>>)
  ELSE mapFastLoop(fn, xs, 2, <<>>, <<>>)

mapFast(fn, xs) ==
  IF NoProperties(xs) THEN Outcome(Throw("TypeError"), xs, <<>>)
  ELSE mapFastLoop(fn, xs, 1, <<>>, <<>>)

\* (acc, x) => (predicate(x) ? [...acc, x] : acc)
filterCallback(predicate, acc, x) ==
  LET c == Call(predicate, <<x>>)
  IN  IF IsThrow(c.val) THEN Outcome(c.val, acc, c.log)
      ELSE IF Truthy(c.val) THEN Outcome(Arr(acc.items \o <<x>>), acc, c.log)
      ELSE Outcome(acc, acc, c.log)

filter(predicate, xs) ==
  ArrayReduce([t |-> "function", k |-> "filterCallback", predicate |-> predicate],
              Arr(<<>>), xs)

RECURSIVE filterFastLoop(_, _, _, _, _)
filterFastLoop(predicate, xs, k, newXs, log) ==
  IF k > Length(xs) THEN Outcome(Arr(newXs), xs, log)
  ELSE LET c == Call(predicate, <<xs.items[k]>>)
       IN  IF IsThrow(c.val) THEN Outcome(c.val, xs, log \o c.log)
           ELSE filterFastLoop(predicate, xs, k + 1,
                               IF Truthy(c.val) THEN Append(newXs, xs.items[k]) ELSE newXs,
                               log \o c.log)

filterFast(predicate, xs) ==
  IF NoProperties(xs) THEN Outcome(Throw("TypeError"), xs, <<>>)
  ELSE filterFastLoop(predicate, xs, 1, <<>>, <<>>)

---------------------------------------------------------------------------
(* fp.js lines 42-55 *)

\* const [head, ...tail] = x: head of an empty array is undefined, tail is []
Head0(x) == At(x, 1)
Tail0(x) == Arr(IF Len(x.items) = 0 THEN <<>> ELSE Tail(x.items))

\* result = fn(initial, head) is computed first; when the tail is empty fn is
\* called again on initial, which is the object the first call was given.
\* Only an array can be destructured here.
fold(fn, initial, x) ==
  IF x.t # "array" THEN Outcome(Throw("TypeError"), x, <<>>) ELSE
  LET head == Head0(x)
      tail == Tail0(x)
      result == Call(fn, <<initial, head>>)
  IN  IF IsThrow(result.val) THEN Outcome(result.val, x, result.log)
      ELSE IF Len(tail.items) > 0
      THEN LET rest == Call([t |-> "function", k |-> "fold", fn |-> fn,
                             initial |-> result.val], <<tail>>)
           IN  Outcome(rest.val, x, result.log \o rest.log)
      ELSE LET again == Call(fn, <<result.arg1, head>>)
           IN  Outcome(again.val, x, result.log \o again.log)

RECURSIVE foldFastLoop(_, _, _, _, _)
foldFastLoop(fn, initial, xs, k, log) ==
  IF k > Length(xs) THEN Outcome(initial, xs, log)
  ELSE LET r == Call(fn, <<initial, xs.items[k]>>)
       IN  IF IsThrow(r.val) THEN Outcome(r.val, xs, log \o r.log)
           ELSE foldFastLoop(fn, r.val, xs, k + 1, log \o r.log)

\* a faulty foldFast that catches what fn throws and goes on with the next
\* element, the accumulator as it was
RECURSIVE foldFastCatchLoop(_, _, _, _, _)
foldFastCatchLoop(fn, initial, xs, k, log) ==
  IF k > Length(xs) THEN Outcome(initial, xs, log)
  ELSE LET r == Call(fn, <<initial, xs.items[k]>>)
       IN  foldFastCatchLoop(fn, IF IsThrow(r.val) THEN initial ELSE r.val,
                             xs, k + 1, log \o r.log)

foldFastCatching(fn, initial, xs) ==
  IF NoProperties(xs) THEN Outcome(Throw("TypeError"), xs, <<>>)
  ELSE foldFastCatchLoop(fn, initial, xs, 1, <<>>)

\* a faulty foldFast that calls itself on the rest of the array
foldFastRecursing(fn, initial, xs) ==
  IF NoProperties(xs) THEN Outcome(Throw("TypeError"), xs, <<>>)
  ELSE IF Length(xs) = 0 THEN Outcome(initial, xs, <<>>)
  ELSE LET r == Call(fn, <<initial, xs.items[1]>>)
       IN  IF IsThrow(r.val) THEN Outcome(r.val, xs, r.log)
           ELSE LET rest == Call([t |-> "function", k |-> "foldFast", fn |-> fn,
                                  initial |-> r.val], <<Arr(Tail(xs.items))>>)
                IN  Outcome(rest.val, xs, r.log \o rest.log)

\* a faulty foldFast whose loop starts at i = 1
foldFastFromSecond(fn, initial, xs) ==
  IF NoProperties(xs) THEN Outcome(Throw("TypeError"), xs, <<>>)
  ELSE foldFastLoop(fn, initial, xs, 2, <<>>)

foldFast(fn, initial, xs) ==
  IF NoProperties(xs) THEN Outcome(Throw("TypeError"), xs, <<>>)
  ELSE foldFastLoop(fn, initial, xs, 1, <<>>)

---------------------------------------------------------------------------
(* fp.js lines 57-65 *)

\* a faulty rMap that hands x itself to the reducer
rMapWithoutFn(fn, reducer, acc, x) ==
  LET d == Call(reducer, <<acc, x>>)
  IN  Outcome(d.val, d.arg1, d.log)

\* (acc, x) => reducer(acc, fn(x))
rMap(fn, reducer, acc, x) ==
  LET y == Call(fn, <<x>>)
  IN  IF IsThrow(y.val) THEN Outcome(y.val, acc, y.log)
      ELSE LET d == Call(reducer, <<acc, y.val>>)
           IN  Outcome(d.val, d.arg1, y.log \o d.log)

\* a faulty rFilter that forwards every element after asking the predicate
rFilterForwardingAll(predicate, reducer, acc, x) ==
  LET c == Call(predicate, <<x>>)
      d == Call(reducer, <<acc, x>>)
  IN  IF IsThrow(c.val) THEN Outcome(c.val, acc, c.log)
      ELSE Outcome(d.val, d.arg1, c.log \o d.log)

\* (acc, x) => (predicate(x) ? reducer(acc, x) : acc)
rFilter(predicate, reducer, acc, x) ==
  LET c == Call(predicate, <<x>>)
  IN  IF IsThrow(c.val) THEN Outcome(c.val, acc, c.log)
      ELSE IF Truthy(c.val)
      THEN LET d == Call(reducer, <<acc, x>>)
           IN  Outcome(d.val, d.arg1, c.log \o d.log)
      ELSE Outcome(acc, acc, c.log)

\* acc.push(x); return acc: the array passed in is the array returned
concat(acc, x) ==
  IF acc.t = "array"
  THEN LET pushed == Arr(Append(acc.items, x)) IN Outcome(pushed, pushed, <<>>)
  ELSE Outcome(Throw("TypeError"), acc, <<>>)

---------------------------------------------------------------------------
(* fp.js lines 67-76 *)

RECURSIVE imperativeLoop(_, _, _, _)
imperativeLoop(d, k, result, log) ==
  IF k > Len(d.items) THEN Outcome(result, d, log)
  ELSE LET m == Call(Fn("multBy10"), <<d.items[k]>>)
           d2 == Arr([d.items EXCEPT ![k] = m.val])
           e == Call(Fn("isEven"), <<d2.items[k]>>)
       IN  imperativeLoop(d2, k + 1,
                          IF Truthy(e.val) THEN add(result, d2.items[k]) ELSE result,
                          log \o m.log \o e.log)

imperativeSolution(d) == imperativeLoop(d, 1, Num(0), <<>>)

---------------------------------------------------------------------------
(* The call of a function value: the callee's code runs on the arguments.   *)
(* The partial applications fn => xs => ..., (fn, initial) => xs => ... and *)
(* fn => reducer => (acc, x) => ... are values until the last argument      *)
(* list arrives.                                                            *)

\* a transform or predicate of the caller's that raises on one value and is
\* fn on every other: x => { if (x === on) throw new Error(); return fn(x); }
raisesOn(fn, on, x) ==
  IF x = on THEN Outcome(Throw("Error"), x, <<>>) ELSE Call(fn, <<x>>)

Enter(f, args, o) == Outcome(o.val, o.arg1, <<Event(f, args)>> \o Deeper(o.log))

Call(f, args) ==
  IF f.t # "function" THEN Outcome(Throw("TypeError"), Undefined, <<>>)
  ELSE Enter(f, args,
    CASE f.k = "isEven" -> Outcome(isEven(args[1]), args[1], <<>>)
      [] f.k = "add" -> Outcome(add(args[1], args[2]), args[1], <<>>)
      [] f.k = "add1" -> Outcome(add1(args[1]), args[1], <<>>)
      [] f.k = "multBy10" -> Outcome(multBy10(args[1]), args[1], <<>>)
      [] f.k = "concat" -> concat(args[1], args[2])
      [] f.k = "compose" -> composeInner(f.f, f.g, args)
      [] f.k = "readmeCompose" -> readmeInner(f.f, f.g, args)
      [] f.k = "composeFast" -> composeFast(f.fns, args)
      [] f.k = "map" -> map(f.fn, args[1])
      [] f.k = "mapFast" -> mapFast(f.fn, args[1])
      [] f.k = "mapCallback" -> mapCallback(f.fn, args[1], args[2])
      [] f.k = "filter" -> filter(f.predicate, args[1])
      [] f.k = "filterFast" -> filterFast(f.predicate, args[1])
      [] f.k = "filterCallback" -> filterCallback(f.predicate, args[1], args[2])
      [] f.k = "fold" -> fold(f.fn, f.initial, args[1])
      [] f.k = "foldFast" -> foldFast(f.fn, f.initial, args[1])
      [] f.k = "rMap" ->
           Outcome([t |-> "function", k |-> "rMapReducer", fn |-> f.fn,
                    reducer |-> args[1]], args[1], <<>>)
      [] f.k = "rMapReducer" -> rMap(f.fn, f.reducer, args[1], args[2])
      [] f.k = "rFilter" ->
           Outcome([t |-> "function", k |-> "rFilterReducer",
                    predicate |-> f.predicate, reducer |-> args[1]], args[1], <<>>)
      [] f.k = "rFilterReducer" -> rFilter(f.predicate, f.reducer, args[1], args[2])
      [] f.k = "raisesOn" -> raisesOn(f.fn, f.on, args[1]))

---------------------------------------------------------------------------
(* fp.js lines 78-129: the benchmark loop runs when the module is loaded *)

Labels ==
  {"SLOW", "STANDARD JS CHAIN", "A BIT OPTIMIZED", "TRANSDUCE", "IMPERATIVE SOLUTION"}

NotRun == [t |-> "not run"]

\* Array.from({ length: i }, (_, index) => index)
ArrayFrom(n) == Arr([k \in 1..n |-> Num(k - 1)])

\* const result = fn(): the value the benchmarked thunk returned, kept per label
microBenchmark(label, o) == [results EXCEPT ![label] = o.val]

Partial1(k, fn) == [t |-> "function", k |-> k, fn |-> fn]
PartialP(k, predicate) == [t |-> "function", k |-> k, predicate |-> predicate]
PartialFold(k, fn, initial) == [t |-> "function", k |-> k, fn |-> fn, initial |-> initial]
ComposedFast(fns) == [t |-> "function", k |-> "composeFast", fns |-> fns]

\* compose(fold(add, 0), filter(isEven), map(multBy10))(data)
slowThunk(d) ==
  Call(compose(<<PartialFold("fold", Fn("add"), Num(0)),
                 PartialP("filter", Fn("isEven")),
                 Partial1("map", Fn("multBy10"))>>), <<d>>)

\* data.map(multBy10).filter(isEven).reduce(add, 0)
standardThunk(d) ==
  LET m == ArrayMap(Fn("multBy10"), d)
      f == ArrayFilter(Fn("isEven"), m.val)
      r == ArrayReduce(Fn("add"), Num(0), f.val)
  IN  Outcome(r.val, m.arg1, m.log \o f.log \o r.log)

\* composeFast(mapFast(multBy10), filterFast(isEven), foldFast(add, 0))(data)
optimizedThunk(d) ==
  Call(ComposedFast(<<Partial1("mapFast", Fn("multBy10")),
                      PartialP("filterFast", Fn("isEven")),
                      PartialFold("foldFast", Fn("add"), Num(0))>>), <<d>>)

\* transduced = composeFast(rFilter(isEven), rMap(multBy10))(concat);
\* composeFast(foldFast(add, 0), transduced)(data)
transduceThunk(d) ==
  LET transduced == Call(ComposedFast(<<PartialP("rFilter", Fn("isEven")),
                                        Partial1("rMap", Fn("multBy10"))>>),
                         <<Fn("concat")>>)
      run == Call(ComposedFast(<<PartialFold("foldFast", Fn("add"), Num(0)),
                                 transduced.val>>), <<d>>)
  IN  Outcome(run.val, run.arg1, transduced.log \o run.log)

Init ==
  /\ pc = "SLOW"
  /\ i = FirstSize
  /\ data = ArrayFrom(FirstSize)
  /\ results = [l \in Labels |-> NotRun]
  /\ call = [op |-> "none"]

Slow ==
  /\ pc = "SLOW"
  /\ i <= SlowLimit
  /\ LET o == slowThunk(data)
     IN  /\ results' = microBenchmark("SLOW", o)
         /\ data' = o.arg1
  /\ pc' = "STANDARD JS CHAIN"
  /\ UNCHANGED <<i, call>>

\* console.log('SLOW = STACK OVERFLOW')
SlowSkipped ==
  /\ pc = "SLOW"
  /\ i > SlowLimit
  /\ pc' = "STANDARD JS CHAIN"
  /\ UNCHANGED <<i, data, results, call>>

StandardJsChain ==
  /\ pc = "STANDARD JS CHAIN"
  /\ LET o == standardThunk(data)
     IN  /\ results' = microBenchmark("STANDARD JS CHAIN", o)
         /\ data' = o.arg1
  /\ pc' = "A BIT OPTIMIZED"
  /\ UNCHANGED <<i, call>>

ABitOptimized ==
  /\ pc = "A BIT OPTIMIZED"
  /\ LET o == optimizedThunk(data)
     IN  /\ results' = microBenchmark("A BIT OPTIMIZED", o)
         /\ data' = o.arg1
  /\ pc' = "TRANSDUCE"
  /\ UNCHANGED <<i, call>>

Transduce ==
  /\ pc = "TRANSDUCE"
  /\ LET o == transduceThunk(data)
     IN  /\ results' = microBenchmark("TRANSDUCE", o)
         /\ data' = o.arg1
  /\ pc' = "IMPERATIVE SOLUTION"
  /\ UNCHANGED <<i, call>>

ImperativeSolution ==
  /\ pc = "IMPERATIVE SOLUTION"
  /\ LET o == imperativeSolution(data)
     IN  /\ results' = microBenchmark("IMPERATIVE SOLUTION", o)
         /\ data' = o.arg1
  /\ pc' = "next"
  /\ UNCHANGED <<i, call>>

\* i *= 4; i < 1e7: a new data array for the next round
NextIteration ==
  /\ pc = "next"
  /\ i * SizeFactor < SizeLimit
  /\ i' = i * SizeFactor
  /\ data' = ArrayFrom(i * SizeFactor)
  /\ results' = [l \in Labels |-> NotRun]
  /\ pc' = "SLOW"
  /\ UNCHANGED call

\* the loop ends and module.exports is set
Export ==
  /\ pc = "next"
  /\ ~(i * SizeFactor < SizeLimit)
  /\ i' = i * SizeFactor
  /\ pc' = "exported"
  /\ UNCHANGED <<data, results, call>>

---------------------------------------------------------------------------
(* Once loaded, the functions are called on arguments of the caller's       *)
(* choice (the tests call the exported ones; the composers are called by    *)
(* the module itself).  call keeps the call made and its outcome until the  *)
(* caller has taken it.                                                     *)

SeqsUpTo(S, n) == UNION {[1..m -> S] : m \in 0..n}

Elems == {Num(n) : n \in -1..MaxElem}
Arrays == {Arr(s) : s \in SeqsUpTo(Elems, MaxLen)}

Transforms == {Fn("add1"), Fn("multBy10")}
Predicates == {Fn("isEven")}

\* rMap(fn) and rFilter(predicate), before a reducer is given
Transformers ==
  {Partial1("rMap", f) : f \in Transforms}
    \cup {PartialP("rFilter", p) : p \in Predicates}

\* t(r) for a transformer t: the value the call of t on r returns
Wrap(tr, r) == Call(tr, <<r>>).val

RECURSIVE ReducersUpTo(_)
ReducersUpTo(n) ==
  IF n = 0 THEN {Fn("add"), Fn("concat")}
  ELSE ReducersUpTo(n - 1)
         \cup {Wrap(tr, r) : tr \in Transformers, r \in ReducersUpTo(n - 1)}

Reducers == ReducersUpTo(MaxNest)

\* the reducer at the end of a chain of transformers
RECURSIVE Terminal(_)
Terminal(r) == IF r.k \in {"rMapReducer", "rFilterReducer"} THEN Terminal(r.reducer) ELSE r

\* accumulators of the terminal reducer's type
Accumulators(r) ==
  IF Terminal(r).k = "concat" THEN {Arr(<<>>), Arr(<<Num(MaxElem)>>)}
  ELSE {Num(0), Num(MaxElem)}

\* functions from arrays to arrays
ListFns ==
  {Partial1("map", Fn("add1")), PartialP("filter", Fn("isEven")),
   Partial1("mapFast", Fn("multBy10")), PartialP("filterFast", Fn("isEven"))}

\* a list of functions of one type and an argument of that type
Compositions ==
  {[fns |-> s, arg |-> x] : s \in SeqsUpTo(Transforms, MaxFns), x \in Elems}
    \cup {[fns |-> s, arg |-> x] : s \in SeqsUpTo(ListFns, MaxFns), x \in Arrays}
    \cup {[fns |-> s, arg |-> x] : s \in SeqsUpTo(Transformers, MaxFns),
                                     x \in {Fn("add"), Fn("concat")}}

CallMap ==
  /\ pc = "exported"
  /\ \E fn \in Transforms, xs \in Arrays :
       call' = [op |-> "map", fn |-> fn, xs |-> xs,
                out |-> Call(Partial1("map", fn), <<xs>>)]
  /\ pc' = "returned"
  /\ UNCHANGED <<i, data, results>>

CallMapFast ==
  /\ pc = "exported"
  /\ \E fn \in Transforms, xs \in Arrays :
       call' = [op |-> "mapFast", fn |-> fn, xs |-> xs,
                out |-> Call(Partial1("mapFast", fn), <<xs>>)]
  /\ pc' = "returned"
  /\ UNCHANGED <<i, data, results>>

CallFilter ==
  /\ pc = "exported"
  /\ \E predicate \in Predicates, xs \in Arrays :
       call' = [op |-> "filter", predicate |-> predicate, xs |-> xs,
                out |-> Call(PartialP("filter", predicate), <<xs>>)]
  /\ pc' = "returned"
  /\ UNCHANGED <<i, data, results>>

CallFilterFast ==
  /\ pc = "exported"
  /\ \E predicate \in Predicates, xs \in Arrays :
       call' = [op |-> "filterFast", predicate |-> predicate, xs |-> xs,
                out |-> Call(PartialP("filterFast", predicate), <<xs>>)]
  /\ pc' = "returned"
  /\ UNCHANGED <<i, data, results>>

CallFold ==
  /\ pc = "exported"
  /\ \E fn \in Reducers, xs \in Arrays : \E initial \in Accumulators(fn) :
       call' = [op |-> "fold", fn |-> fn, initial |-> initial, xs |-> xs,
                out |-> Call(PartialFold("fold", fn, initial), <<xs>>)]
  /\ pc' = "returned"
  /\ UNCHANGED <<i, data, results>>

CallFoldFast ==
  /\ pc = "exported"
  /\ \E fn \in Reducers, xs \in Arrays : \E initial \in Accumulators(fn) :
       call' = [op |-> "foldFast", fn |-> fn, initial |-> initial, xs |-> xs,
                out |-> Call(PartialFold("foldFast", fn, initial), <<xs>>)]
  /\ pc' = "returned"
  /\ UNCHANGED <<i, data, results>>

\* xs.reduce(reducer, initial), as the tests drive rMap and rFilter
CallReduce ==
  /\ pc = "exported"
  /\ \E fn \in Reducers, xs \in Arrays : \E initial \in Accumulators(fn) :
       call' = [op |-> "reduce", fn |-> fn, initial |-> initial, xs |-> xs,
                out |-> ArrayReduce(fn, initial, xs)]
  /\ pc' = "returned"
  /\ UNCHANGED <<i, data, results>>

\* one step of a reducer: reducer(acc, x)
CallReducer ==
  /\ pc = "exported"
  /\ \E fn \in Reducers, x \in Elems : \E acc \in Accumulators(fn) :
       call' = [op |-> "reducer", fn |-> fn, acc |-> acc, x |-> x,
                out |-> Call(fn, <<acc, x>>)]
  /\ pc' = "returned"
  /\ UNCHANGED <<i, data, results>>

CallCompose ==
  /\ pc = "exported"
  /\ \E c \in Compositions :
       call' = [op |-> "compose", fns |-> c.fns, arg |-> c.arg,
                out |-> LET composed == compose(c.fns)
                        IN  IF IsThrow(composed) THEN Outcome(composed, c.arg, <<>>)
                            ELSE Call(composed, <<c.arg>>)]
  /\ pc' = "returned"
  /\ UNCHANGED <<i, data, results>>

CallReadmeCompose ==
  /\ pc = "exported"
  /\ \E c \in Compositions :
       call' = [op |-> "readmeCompose", fns |-> c.fns, arg |-> c.arg,
                out |-> LET composed == readmeCompose(c.fns)
                        IN  IF IsThrow(composed) THEN Outcome(composed, c.arg, <<>>)
                            ELSE Call(composed, <<c.arg>>)]
  /\ pc' = "returned"
  /\ UNCHANGED <<i, data, results>>

CallComposeFast ==
  /\ pc = "exported"
  /\ \E c \in Compositions :
       call' = [op |-> "composeFast", fns |-> c.fns, arg |-> c.arg,
                out |-> Call(ComposedFast(c.fns), <<c.arg>>)]
  /\ pc' = "returned"
  /\ UNCHANGED <<i, data, results>>

\* foldFast(composeFast(...transformers)(reducer), initial)(xs): one traversal
\* with the composed reducer, the shape of the TRANSDUCE benchmark
CallTransduce ==
  /\ pc = "exported"
  /\ \E ts \in SeqsUpTo(Transformers, MaxFns), r \in {Fn("add"), Fn("concat")},
        xs \in Arrays :
       LET composed == Call(ComposedFast(ts), <<r>>)
           initial == IF r.k = "concat" THEN Arr(<<>>) ELSE Num(0)
       IN  call' = [op |-> "transduce", fns |-> ts, reducer |-> r,
                    initial |-> initial, xs |-> xs, composed |-> composed,
                    out |-> IF IsThrow(composed.val) THEN composed
                            ELSE Call(PartialFold("foldFast", composed.val, initial),
                                      <<xs>>)]
  /\ pc' = "returned"
  /\ UNCHANGED <<i, data, results>>

\* the caller's transforms and predicates that raise on one element
RaisingFns == {[t |-> "function", k |-> "raisesOn", fn |-> f, on |-> v] :
                 f \in Transforms \cup Predicates, v \in Elems}

RaisingTransformers ==
  {Partial1("rMap", f) : f \in {g \in RaisingFns : g.fn \in Transforms}}
    \cup {PartialP("rFilter", p) : p \in {g \in RaisingFns : g.fn \in Predicates}}

\* reducers with one raising stage, outermost or under one more stage
RaisingReducers ==
  LET inner == {Wrap(tr, r) : tr \in RaisingTransformers, r \in {Fn("add"), Fn("concat")}}
  IN  inner \cup {Wrap(tr, r) : tr \in Transformers, r \in inner}

\* foldFast(fn, initial)(xs) with a stage of fn that raises on some element
CallFoldFastRaising ==
  /\ pc = "exported"
  /\ \E fn \in RaisingReducers, xs \in Arrays :
       LET initial == IF Terminal(fn).k = "concat" THEN Arr(<<>>) ELSE Num(0)
       IN  call' = [op |-> "foldFastRaising", fn |-> fn, initial |-> initial, xs |-> xs,
                    out |-> Call(PartialFold("foldFast", fn, initial), <<xs>>)]
  /\ pc' = "returned"
  /\ UNCHANGED <<i, data, results>>

\* the call has returned and its outcome has been looked at
Return ==
  /\ pc = "returned"
  /\ pc' = "exported"
  /\ call' = [op |-> "none"]
  /\ UNCHANGED <<i, data, results>>

Next ==
  \/ Slow
  \/ SlowSkipped
  \/ StandardJsChain
  \/ ABitOptimized
  \/ Transduce
  \/ ImperativeSolution
  \/ NextIteration
  \/ Export
  \/ CallMap
  \/ CallMapFast
  \/ CallFilter
  \/ CallFilterFast
  \/ CallFold
  \/ CallFoldFast
  \/ CallReduce
  \/ CallReducer
  \/ CallCompose
  \/ CallReadmeCompose
  \/ CallComposeFast
  \/ CallTransduce
  \/ CallFoldFastRaising
  \/ Return

Spec == Init /\ [][Next]_vars

---------------------------------------------------------------------------
(* What the properties below are stated with *)

\* the value f returns on v
Apply(f, v) == Call(f, <<v>>).val

\* the value r returns on (acc, x)
Apply2(r, acc, x) == Call(r, <<acc, x>>).val

Range(s) == {s[k] : k \in 1..Len(s)}
Reverse(s) == [k \in 1..Len(s) |-> s[Len(s) + 1 - k]]
Callees(log) == [k \in 1..Len(log) |-> log[k].callee]

\* the calls of the log made to f, in order
CallsTo(log, f) == SelectSeq(log, LAMBDA e : e.callee = f)

\* the functions of the list fns in the order the log shows them called
StagesCalled(log, fns) == Callees(SelectSeq(log, LAMBDA e : e.callee \in Range(fns)))

\* f1(f2(...fn(x)...)) for fns = <<f1, ..., fn>>
RECURSIVE Nested(_, _, _)
Nested(fns, j, x) == IF j > Len(fns) THEN x ELSE Apply(fns[j], Nested(fns, j + 1, x))

\* the list of f(x), and the elements p accepts
Mapped(f, s) == [k \in 1..Len(s) |-> Apply(f, s[k])]
Kept(p, s) == SelectSeq(s, LAMBDA x : Truthy(Apply(p, x)))

RECURSIVE Sum(_)
Sum(s) == IF Len(s) = 0 THEN 0 ELSE s[Len(s)].n + Sum(SubSeq(s, 1, Len(s) - 1))

\* the pipeline [map f, filter p] given to the composer with the sum reducer
IsMapThenFilterSum ==
  /\ call.op = "transduce"
  /\ Len(call.fns) = 2
  /\ call.fns[1].k = "rMap"
  /\ call.fns[2].k = "rFilter"
  /\ call.reducer.k = "add"

---------------------------------------------------------------------------
(* C1: fusion equivalence.  One foldFast over xs from 0 with the reducer     *)
(* composeFast(rMap(f), rFilter(p))(add) returns the sum of the f(x) that    *)
(* satisfy p.                                                                *)
C1_FusionEquivalence ==
  IsMapThenFilterSum =>
    call.out.val = Num(Sum(Kept(call.fns[2].predicate,
                                Mapped(call.fns[1].fn, call.xs.items))))

(* C2: in every round of the benchmark loop, each computation that has run   *)
(* returned the value of STANDARD JS CHAIN.                                  *)
C2_SameResults ==
  \A l \in Labels :
    (results[l] # NotRun /\ results["STANDARD JS CHAIN"] # NotRun)
      => results[l] = results["STANDARD JS CHAIN"]

(* C3: composeFast(t1, ..., tn)(r), n >= 1, calls every listed function      *)
(* once, the last listed first, and returns t1(t2(...tn(r)...)).             *)
C3_ComposeFastContract ==
  (call.op = "composeFast" /\ Len(call.fns) >= 1) =>
    /\ call.out.val = Nested(call.fns, 1, call.arg)
    /\ StagesCalled(call.out.log, call.fns) = Reverse(call.fns)

(* C4: compose(f1, ..., fn)(x), n >= 1, equals f1(f2(...fn(x)...)), every    *)
(* function called once and the last listed first; the composer the README   *)
(* prints returns the same value.                                            *)
C4_ComposeRightToLeft ==
  /\ (call.op = "compose" /\ Len(call.fns) >= 1) =>
       /\ call.out.val = Nested(call.fns, 1, call.arg)
       /\ StagesCalled(call.out.log, call.fns) = Reverse(call.fns)
  /\ (call.op = "readmeCompose" /\ Len(call.fns) >= 1) =>
       call.out.val = Nested(call.fns, 1, call.arg)

C4_Witness ==
  /\ call.op = "compose"
  /\ Len(call.fns) = 2
  /\ call.fns[1] # call.fns[2]
  /\ call.out.val # Nested(Reverse(call.fns), 1, call.arg)

(* C5: compose() and composeFast() with no functions give the identity:      *)
(* applied to a reducer r the result raises no error and behaves as r on     *)
(* every accumulator and element.                                            *)
C5_EmptyPipelineIdentity ==
  (/\ call.op \in {"compose", "composeFast"}
   /\ Len(call.fns) = 0
   /\ call.arg.t = "function") =>
    /\ ~IsThrow(call.out.val)
    /\ \A x \in Elems : \A acc \in Accumulators(call.arg) :
         Apply2(call.out.val, acc, x) = Apply2(call.arg, acc, x)

(* C6: rMap(f)(r)(acc, x) is r(acc, f(x)): f is called once on x, then r     *)
(* once on (acc, f(x)), and nothing else is called by the wrapper; folding   *)
(* xs with rMap(f)(concat) from an empty list gives the list of f(x), in     *)
(* the order of xs.                                                          *)
C6_MapTransformer ==
  /\ (call.op = "reducer" /\ call.fn.k = "rMapReducer") =>
       LET y == Apply(call.fn.fn, call.x)
           d == Call(call.fn.reducer, <<call.acc, y>>)
       IN  /\ call.out.val = d.val
           /\ call.out.log = <<Event(call.fn, <<call.acc, call.x>>)>>
                                \o Deeper(<<Event(call.fn.fn, <<call.x>>)>> \o d.log)
           /\ d.log[1] = Event(call.fn.reducer, <<call.acc, y>>)
  /\ (/\ call.op \in {"reduce", "foldFast"}
      /\ call.fn.k = "rMapReducer"
      /\ call.fn.reducer.k = "concat"
      /\ call.initial = Arr(<<>>)) =>
       call.out.val = Arr(Mapped(call.fn.fn, call.xs.items))

C6_Witness ==
  /\ call.op = "reduce"
  /\ call.fn.k = "rMapReducer"
  /\ call.fn.reducer.k = "concat"
  /\ call.initial = Arr(<<>>)
  /\ Len(call.xs.items) >= 2
  /\ call.xs.items[1] # call.xs.items[2]
  /\ call.out.val # call.xs

(* C7: rFilter(p)(r)(acc, x) calls p once on x; when p(x) is false it calls  *)
(* nothing else and returns acc, left as it was; when p(x) is true it        *)
(* returns r(acc, x).  Folding xs with rFilter(p)(concat) from an empty list *)
(* gives the elements of xs that satisfy p, in the order of xs, with one     *)
(* call of concat per such element.                                          *)
C7_FilterTransformer ==
  /\ (call.op = "reducer" /\ call.fn.k = "rFilterReducer") =>
       IF Truthy(Apply(call.fn.predicate, call.x))
       THEN LET d == Call(call.fn.reducer, <<call.acc, call.x>>)
            IN  /\ call.out.val = d.val
                /\ call.out.log =
                     <<Event(call.fn, <<call.acc, call.x>>)>>
                       \o Deeper(<<Event(call.fn.predicate, <<call.x>>)>> \o d.log)
       ELSE /\ call.out.val = call.acc
            /\ call.out.arg1 = call.acc
            /\ call.out.log =
                 <<Event(call.fn, <<call.acc, call.x>>)>>
                   \o Deeper(<<Event(call.fn.predicate, <<call.x>>)>>)
  /\ (/\ call.op \in {"reduce", "foldFast"}
      /\ call.fn.k = "rFilterReducer"
      /\ call.fn.reducer.k = "concat"
      /\ call.initial = Arr(<<>>)) =>
       LET kept == Kept(call.fn.predicate, call.xs.items)
       IN  /\ call.out.val = Arr(kept)
           /\ Len(CallsTo(call.out.log, call.fn.reducer)) = Len(kept)

C7_Witness ==
  /\ call.op = "reducer"
  /\ call.fn.k = "rFilterReducer"
  /\ ~Truthy(Apply(call.fn.predicate, call.x))
  /\ call.out.val = call.acc

(* C8: foldFast(fn, initial)(xs) calls fn once per element, on xs[0],        *)
(* xs[1], ... in that order, the first call on initial and each later call   *)
(* on the value the call before returned, and returns what the last call     *)
(* returned; on the empty array it calls nothing and returns initial.        *)
C8_FoldFastTraversal ==
  call.op = "foldFast" =>
    LET calls == CallsTo(call.out.log, call.fn)
        n == Len(call.xs.items)
    IN  /\ Len(calls) = n
        /\ \A k \in 1..n :
             /\ calls[k].args[2] = call.xs.items[k]
             /\ calls[k].args[1] =
                  IF k = 1 THEN call.initial
                  ELSE Apply2(call.fn, calls[k - 1].args[1], calls[k - 1].args[2])
        /\ call.out.val =
             IF n = 0 THEN call.initial
             ELSE Apply2(call.fn, calls[n].args[1], calls[n].args[2])
        /\ (n = 0 /\ call.initial = Num(0)) => call.out.val = Num(0)

C8_Witness ==
  /\ call.op = "foldFast"
  /\ Len(call.xs.items) = MaxLen
  /\ call.fn.k = "add"
  /\ call.out.val # call.initial

(* C9: fold(fn, initial)(xs) equals foldFast(fn, initial)(xs) for every      *)
(* reducer, initial value and array, the empty array included, with fn       *)
(* called once per element.                                                  *)
C9_FoldEqualsFoldFast ==
  call.op = "fold" =>
    /\ call.out.val = foldFast(call.fn, call.initial, call.xs).val
    /\ Len(CallsTo(call.out.log, call.fn)) = Len(call.xs.items)

(* C10: mapFast(fn)(xs) and map(fn)(xs) are both the list of fn(x) in the    *)
(* order of xs; filterFast(p)(xs) and filter(p)(xs) are both the elements of *)
(* xs that satisfy p, in the order of xs.                                    *)
C10_FastEqualsNaive ==
  /\ call.op \in {"map", "mapFast"} =>
       call.out.val = Arr(Mapped(call.fn, call.xs.items))
  /\ call.op \in {"filter", "filterFast"} =>
       call.out.val = Arr(Kept(call.predicate, call.xs.items))

C10_Witness ==
  /\ call.op = "mapFast"
  /\ Len(call.xs.items) = MaxLen
  /\ call.xs.items[1] # call.xs.items[2]
  /\ call.out.val = map(call.fn, call.xs).val

\* the stage of reducer r raises when r is given element x
RECURSIVE RaisesAt(_, _)
RaisesAt(r, x) ==
  CASE r.k = "rMapReducer" ->
         IF r.fn.k = "raisesOn" THEN x = r.fn.on
         ELSE RaisesAt(r.reducer, Apply(r.fn, x))
    [] r.k = "rFilterReducer" ->
         IF r.predicate.k = "raisesOn" THEN x = r.predicate.on
         ELSE Truthy(Apply(r.predicate, x)) /\ RaisesAt(r.reducer, x)
    [] OTHER -> FALSE

\* the indices of xs at which reducer r raises
RaisingIndices(r, xs) == {k \in 1..Len(xs.items) : RaisesAt(r, xs.items[k])}

First(S) == CHOOSE k \in S : \A j \in S : k <= j

IsRaiser(f) == f.k = "raisesOn"

(* C11: when a transform or predicate of a reducer built from rMap/rFilter   *)
(* raises on the element at index k during foldFast, the error is what the   *)
(* caller of the fold gets (no accumulator); the reducer has been called on  *)
(* the elements 0 .. k and on no later one; the raising function is called   *)
(* on element k once and nothing is called after it (neither the downstream  *)
(* reducer for element k, nor the raising function again).                   *)
C11_FailFast ==
  (call.op = "foldFastRaising" /\ RaisingIndices(call.fn, call.xs) # {}) =>
    LET k == First(RaisingIndices(call.fn, call.xs))
        log == call.out.log
        calls == CallsTo(log, call.fn)
        raised == SelectSeq(log, LAMBDA e : IsRaiser(e.callee)
                                             /\ e.args[1] = e.callee.on)
    IN  /\ call.out.val = Throw("Error")
        /\ Len(calls) = k
        /\ \A j \in 1..k : calls[j].args[2] = call.xs.items[j]
        /\ Len(raised) = 1
        /\ log[Len(log)] = raised[1]

C11_Witness ==
  /\ call.op = "foldFastRaising"
  /\ RaisingIndices(call.fn, call.xs) # {}
  /\ First(RaisingIndices(call.fn, call.xs)) = 2
  /\ Len(call.xs.items) = 3
  /\ IsThrow(call.out.val)
  /\ Len(CallsTo(call.out.log, Terminal(call.fn))) = 1

\* the deepest frame of a log, and the rMap/rFilter stages around a reducer
MaxDepth(log) ==
  IF Len(log) = 0 THEN 0
  ELSE CHOOSE m \in {log[k].depth : k \in 1..Len(log)} :
         \A k \in 1..Len(log) : log[k].depth <= m

RECURSIVE Stages(_)
Stages(r) ==
  IF r.k \in {"rMapReducer", "rFilterReducer"} THEN 1 + Stages(r.reducer) ELSE 0

FramesOf(log, kind) == SelectSeq(log, LAMBDA e : e.callee.k = kind)

(* C12: foldFast(fn, initial)(xs) is entered once for any length of xs, it   *)
(* calls fn at the same depth for every element, and no frame lies deeper    *)
(* than the stages of fn below it; the naive fold is entered once per        *)
(* element, each time one frame deeper.                                      *)
C12_StackDepth ==
  /\ call.op = "foldFast" =>
       /\ Len(FramesOf(call.out.log, "foldFast")) = 1
       /\ \A k \in 1..Len(call.out.log) :
            call.out.log[k].callee = call.fn => call.out.log[k].depth = 2
       /\ MaxDepth(call.out.log) <= 2 + Stages(call.fn)
  /\ call.op = "fold" =>
       LET frames == FramesOf(call.out.log, "fold")
           n == Len(call.xs.items)
       IN  /\ Len(frames) = IF n = 0 THEN 1 ELSE n
           /\ \A j \in 1..Len(frames) : frames[j].depth = j

C12_Witness ==
  /\ call.op = "foldFast"
  /\ Len(call.xs.items) = MaxLen
  /\ Stages(call.fn) >= 1
  /\ MaxDepth(call.out.log) = 2 + Stages(call.fn)

\* the array imperativeSolution leaves behind: every data[k] is 10 * k
TimesTen(n) == Arr([k \in 1..n |-> Num(10 * (k - 1))])

ListOps == {"map", "mapFast", "filter", "filterFast", "fold", "foldFast",
            "foldFastRaising"}

(* C13: each benchmark of a driver iteration starts on data = [0, ..., i-1]; *)
(* imperativeSolution, the last one, leaves data[k] = 10 * k behind and no   *)
(* later step reads that array; map, mapFast, filter, filterFast, fold and   *)
(* foldFast return with xs as it was passed; a reducer of rMap/rFilter       *)
(* leaves acc as passed unless concat ends the chain, and then acc is what   *)
(* it was or has one more element at its end.                                *)
C13_InputNotMutated ==
  /\ pc \in Labels => data = ArrayFrom(i)
  /\ pc = "next" => data = TimesTen(i)
  /\ pc \in {"exported", "returned"} => data = TimesTen(Len(data.items))
  /\ call.op \in ListOps => call.out.arg1 = call.xs
  /\ call.op = "transduce" /\ ~IsThrow(call.composed.val) =>
       call.out.arg1 = call.xs
  /\ call.op = "reducer" =>
       IF Terminal(call.fn).k = "concat"
       THEN /\ call.out.arg1.t = "array"
            /\ Len(call.out.arg1.items) \in
                 {Len(call.acc.items), Len(call.acc.items) + 1}
            /\ SubSeq(call.out.arg1.items, 1, Len(call.acc.items)) = call.acc.items
            /\ call.out.val = call.out.arg1
       ELSE call.out.arg1 = call.acc

C13_Witness ==
  /\ pc = "next"
  /\ i > FirstSize
  /\ results["TRANSDUCE"] # NotRun
  /\ results["IMPERATIVE SOLUTION"] # NotRun
  /\ data = TimesTen(i)
  /\ data # ArrayFrom(i)

====
